---- MODULE Spec2Model ----
(***************************************************************************)
(* Model of dfw's configuration types (src/types.rs): the port grammar     *)
(* parser ExposePort::from_str, the ExposePortBuilder, the serde visitors  *)
(* StringOrStruct / SingleOrSeqStringOrStruct, the helpers                 *)
(* string_or_seq_string / struct_or_seq_struct, and the derived decoding   *)
(* of the schema records (deny_unknown_fields, aliases, defaults).         *)
(*                                                                         *)
(* A string is a sequence of one-character strings.  Option<T> is a        *)
(* sequence of length 0 (None) or 1 (Some).  Result<T, E> is a record      *)
(* [ok, val, err]; an error message is a sequence whose elements are       *)
(* either a fixed piece of message text or the characters of an embedded   *)
(* string.                                                                 *)
(***************************************************************************)
EXTENDS Integers, Sequences, FiniteSets, TLC

VARIABLES op, target, input, pc, result, builder

vars == <<op, target, input, pc, result, builder>>

(***************************** bounds **************************************)
\* Largest number of ':'-separated tokens in a generated port-spec body.
MaxTokens == 3
\* Longest sequence node given to a list normalizer.
MaxSeqLen == 3
\* Most setter calls made on one ExposePortBuilder before build().
MaxCalls == 3

(***************************** Result / Option *****************************)
None == <<>>
Some(x) == <<x>>

Ok(v) == [ok |-> TRUE, val |-> v, err |-> <<>>]
Err(m) == [ok |-> FALSE, val |-> <<>>, err |-> m]

(***************************** strings *************************************)
DEFAULT_PROTOCOL == <<"t", "c", "p">>

Udp == <<"u", "d", "p">>

DigitChars == <<"0", "1", "2", "3", "4", "5", "6", "7", "8", "9">>

\* char::to_digit(10): Some(d) or None
ToDigit(ch) ==
    IF \E i \in 1..10 : DigitChars[i] = ch
    THEN Some((CHOOSE i \in 1..10 : DigitChars[i] = ch) - 1)
    ELSE None

RECURSIVE NatToString(_)
NatToString(n) ==
    IF n < 10 THEN <<DigitChars[n + 1]>>
    ELSE NatToString(n \div 10) \o <<DigitChars[(n % 10) + 1]>>

\* i64::to_string(): base 10, a leading '-' for negative values
to_string(n) == IF n < 0 THEN <<"-">> \o NatToString(0 - n) ELSE NatToString(n)

\* str::split(sep).collect(): always at least one piece; pieces may be empty
RECURSIVE SplitFrom(_, _, _, _)
SplitFrom(s, sep, i, cur) ==
    IF i > Len(s) THEN <<cur>>
    ELSE IF s[i] = sep THEN <<cur>> \o SplitFrom(s, sep, i + 1, <<>>)
    ELSE SplitFrom(s, sep, i + 1, Append(cur, s[i]))

Split(s, sep) == SplitFrom(s, sep, 1, <<>>)

(***************************** u16 parsing *********************************)
U16Max == 65535

ErrEmpty == <<"cannot parse integer from empty string">>
ErrInvalidDigit == <<"invalid digit found in string">>
ErrPosOverflow == <<"number too large to fit in target type">>

RECURSIVE ParseDigits(_, _, _)

\* One turn of the digit loop without the checked_mul / checked_add tests
ParseDigit_unchecked(s, i, acc, d) ==
    IF d = None THEN Err(ErrInvalidDigit)
    ELSE ParseDigits(s, i + 1, acc * 10 + d[1])

\* One turn of the digit loop of <u16 as FromStr>::from_str, d being
\* to_digit of the character: the digit check, then checked_mul(10), then
\* checked_add(digit).
ParseDigit(s, i, acc, d) ==
    IF d = None THEN Err(ErrInvalidDigit)
    ELSE IF acc * 10 > U16Max THEN Err(ErrPosOverflow)
    ELSE IF acc * 10 + d[1] > U16Max THEN Err(ErrPosOverflow)
    ELSE ParseDigits(s, i + 1, acc * 10 + d[1])

ParseDigits(s, i, acc) ==
    IF i > Len(s) THEN Ok(acc) ELSE ParseDigit(s, i, acc, ToDigit(s[i]))

\* str::parse::<u16>(): an optional leading '+', no '-', at least one digit
ParseU16(s) ==
    IF Len(s) = 0 THEN Err(ErrEmpty)
    ELSE IF Len(s) = 1 /\ s[1] \in {"+", "-"} THEN Err(ErrInvalidDigit)
    ELSE ParseDigits(s, IF s[1] = "+" THEN 2 ELSE 1, 0)

(***************************** ExposePortBuilder ***************************)
\* ExposePortBuilder::default(): every field unset
BuilderDefault == [host_port |-> None, container_port |-> None, family |-> None]

ErrInvalidFormat(value) ==
    <<"port string has invalid format '">> \o value \o <<"'">>

default_container_port == Ok(None)

default_family == Ok(DEFAULT_PROTOCOL)

\* match arm 1 of client_and_host_port: h is split[0].parse()
HostPortArm(self, h) ==
    IF h.ok THEN Ok([self EXCEPT !.host_port = Some(h.val)]) ELSE Err(h.err)

\* arm 1 with the single token also copied into container_port
HostPortArm_autofill(self, h) ==
    IF h.ok THEN Ok([self EXCEPT !.host_port = Some(h.val),
                                 !.container_port = Some(Some(h.val))])
    ELSE Err(h.err)

\* match arm 2 of client_and_host_port: h and c are split[0].parse() and
\* split[1].parse(); the first `?` returns before the second parse matters
HostContainerArm(self, h, c) ==
    IF ~h.ok THEN Err(h.err)
    ELSE IF ~c.ok THEN Err(c.err)
    ELSE Ok([self EXCEPT !.host_port = Some(h.val),
                         !.container_port = Some(Some(c.val))])

\* the match on split.len() of client_and_host_port
PortArms(self, value, split) ==
    IF Len(split) = 1 THEN HostPortArm(self, ParseU16(split[1]))
    ELSE IF Len(split) = 2
    THEN HostContainerArm(self, ParseU16(split[1]), ParseU16(split[2]))
    ELSE Err(ErrInvalidFormat(value))

\* the match with arm 1 also filling container_port
PortArms_autofill(self, value, split) ==
    IF Len(split) = 1 THEN HostPortArm_autofill(self, ParseU16(split[1]))
    ELSE IF Len(split) = 2
    THEN HostContainerArm(self, ParseU16(split[1]), ParseU16(split[2]))
    ELSE Err(ErrInvalidFormat(value))

\* client_and_host_port with a single token also copied into container_port
client_and_host_port_autofill(self, value) ==
    PortArms_autofill(self, value, Split(value, ":"))

\* ExposePortBuilder::client_and_host_port(value)
client_and_host_port(self, value) == PortArms(self, value, Split(value, ":"))

\* ExposePortBuilder::host_port(value), the derived setter
host_port(self, value) == [self EXCEPT !.host_port = Some(value)]

\* ExposePortBuilder::container_port(value), the derived setter; value is an
\* Option<u16>
container_port(self, value) == [self EXCEPT !.container_port = Some(value)]

\* a family setter that keeps a family that is already set
family_keep_first(self, value) ==
    IF self.family = None THEN [self EXCEPT !.family = Some(value)] ELSE self

\* ExposePortBuilder::family(value), the derived setter
family(self, value) == [self EXCEPT !.family = Some(value)]

\* ExposePortBuilder::build(), derived: host_port is required, the other two
\* fields take their #[builder(default = ...)] when unset
build(self) ==
    IF self.host_port = None THEN Err(<<"host_port must be initialized">>)
    ELSE Ok([host_port |-> self.host_port[1],
             container_port |-> IF self.container_port = None
                                THEN default_container_port.val
                                ELSE self.container_port[1],
             family |-> IF self.family = None THEN default_family.val
                        ELSE self.family[1]])

(***************************** ExposePort::from_str ************************)
\* The arms 1 and 2 of from_str after client_and_host_port(split[0]) gave b:
\* `?` on b, then family(split[1]) in arm 2, then build()
BuildArms(split, b) ==
    IF ~b.ok THEN Err(b.err)
    ELSE IF Len(split) = 1 THEN build(b.val)
    ELSE build(family(b.val, split[2]))

\* the match on split.len() of from_str
FromStrArms(s, split) ==
    IF Len(split) \in {1, 2}
    THEN BuildArms(split, client_and_host_port(BuilderDefault, split[1]))
    ELSE Err(ErrInvalidFormat(s))

from_str(s) == FromStrArms(s, Split(s, "/"))

(***************************** document nodes ***************************)
\* The value tree the format front end hands to serde's deserialize_any.
IntNode(n) == <<"int", n>>
StrNode(s) == <<"str", s>>
BoolNode(b) == <<"bool", b>>
FloatNode(x) == <<"float", x>>
\* a table: a sequence of <<key, node>> entries
MapNode(entries) == <<"map", entries>>
SeqNode(elems) == <<"seq", elems>>

Kind(node) == node[1]
Val(node) == node[2]

\* de::Error::invalid_type(unexpected, &expecting)
ErrInvalidType(node, expecting) ==
    <<"invalid type: ", Kind(node), ", expected ", expecting>>

ErrUnknownField(key) == <<"unknown field ", key>>
ErrDuplicateField(name) == <<"duplicate field ", name>>
ErrMissingField(name) == <<"missing field ", name>>
ErrInvalidValue(node, expecting) ==
    <<"invalid value: ", Kind(node), ", expected ", expecting>>
ErrUnknownVariant(node) == <<"unknown variant">> \o Val(node)

(***************************** schema records ***************************)
\* One entry per field, in declaration order: the field's name, the keys the
\* derived field visitor matches for it (name first, then its aliases), its
\* type, and what a missing key gives ("error", "none" for an Option, or
\* "default" for #[serde(default ...)]).
Field(name, keys, ty, missing) ==
    [name |-> name, keys |-> keys, ty |-> ty, missing |-> missing]

TString == <<"string">>
TU16 == <<"u16">>
TOption(t) == <<"option", t>>
TVec(t) == <<"vec", t>>
TStruct(name) == <<"struct", name>>
TEnum(name) == <<"enum", name>>
TWith(fn, t) == <<"with", fn, t>>

ExposePortFields ==
    << Field("host_port", <<"host_port">>, TU16, "error"),
       Field("container_port", <<"container_port">>, TOption(TU16), "none"),
       Field("family", <<"family">>, TString, "default") >>

TableFields ==
    << Field("name", <<"name">>, TString, "error"),
       Field("chains", <<"chains">>, TVec(TString), "error") >>

DFWFields ==
    << Field("defaults", <<"defaults">>, TOption(TStruct("Defaults")), "none"),
       Field("initialization", <<"initialization">>,
             TOption(TStruct("Initialization")), "none"),
       Field("container_to_container", <<"container_to_container">>,
             TOption(TStruct("ContainerToContainer")), "none"),
       Field("container_to_wider_world", <<"container_to_wider_world">>,
             TOption(TStruct("ContainerToWiderWorld")), "none"),
       Field("container_to_host", <<"container_to_host">>,
             TOption(TStruct("ContainerToHost")), "none"),
       Field("wider_world_to_container", <<"wider_world_to_container">>,
             TOption(TStruct("WiderWorldToContainer")), "none"),
       Field("container_dnat", <<"container_dnat">>,
             TOption(TStruct("ContainerDNAT")), "none") >>

DefaultsFields ==
    << Field("custom_tables", <<"custom_tables">>,
             TWith("option_struct_or_seq_struct", "Table"), "none"),
       Field("external_network_interfaces", <<"external_network_interfaces">>,
             TWith("option_string_or_seq_string", ""), "none"),
       Field("default_docker_bridge_to_host_policy",
             <<"default_docker_bridge_to_host_policy">>,
             TEnum("ChainPolicy"), "default") >>

InitializationFields ==
    << Field("rules", <<"rules">>, TOption(TVec(TString)), "none") >>

ContainerToContainerFields ==
    << Field("default_policy", <<"default_policy">>, TEnum("ChainPolicy"), "error"),
       Field("rules", <<"rules">>,
             TOption(TVec(TStruct("ContainerToContainerRule"))), "none") >>

ContainerToContainerRuleFields ==
    << Field("network", <<"network">>, TString, "error"),
       Field("src_container", <<"src_container">>, TOption(TString), "none"),
       Field("dst_container", <<"dst_container">>, TOption(TString), "none"),
       Field("matches", <<"matches">>, TOption(TString), "none"),
       Field("verdict", <<"verdict", "action">>, TEnum("RuleVerdict"), "error") >>

ContainerToWiderWorldFields ==
    << Field("default_policy", <<"default_policy">>, TEnum("RuleVerdict"), "error"),
       Field("rules", <<"rules">>,
             TOption(TVec(TStruct("ContainerToWiderWorldRule"))), "none") >>

ContainerToWiderWorldRuleFields ==
    << Field("network", <<"network">>, TOption(TString), "none"),
       Field("src_container", <<"src_container">>, TOption(TString), "none"),
       Field("matches", <<"matches">>, TOption(TString), "none"),
       Field("verdict", <<"verdict", "action">>, TEnum("RuleVerdict"), "error"),
       Field("external_network_interface", <<"external_network_interface">>,
             TOption(TString), "none") >>

ContainerToHostFields ==
    << Field("default_policy", <<"default_policy">>, TEnum("RuleVerdict"), "error"),
       Field("rules", <<"rules">>,
             TOption(TVec(TStruct("ContainerToHostRule"))), "none") >>

ContainerToHostRuleFields ==
    << Field("network", <<"network">>, TString, "error"),
       Field("src_container", <<"src_container">>, TOption(TString), "none"),
       Field("matches", <<"matches">>, TOption(TString), "none"),
       Field("verdict", <<"verdict", "action">>, TEnum("RuleVerdict"), "error") >>

WiderWorldToContainerFields ==
    << Field("rules", <<"rules">>,
             TOption(TVec(TStruct("WiderWorldToContainerRule"))), "none") >>

WiderWorldToContainerRuleFields ==
    << Field("network", <<"network">>, TString, "error"),
       Field("dst_container", <<"dst_container">>, TString, "error"),
       Field("expose_port", <<"expose_port">>,
             TWith("single_or_seq_string_or_struct", "ExposePort"), "error"),
       Field("external_network_interface", <<"external_network_interface">>,
             TOption(TString), "none"),
       Field("source_cidr_v4", <<"source_cidr_v4", "source_cidr">>,
             TWith("option_string_or_seq_string", ""), "none"),
       Field("source_cidr_v6", <<"source_cidr_v6", "source_cidr">>,
             TWith("option_string_or_seq_string", ""), "none") >>

ContainerDNATFields ==
    << Field("rules", <<"rules">>,
             TOption(TVec(TStruct("ContainerDNATRule"))), "none") >>

ContainerDNATRuleFields ==
    << Field("src_network", <<"src_network">>, TOption(TString), "none"),
       Field("src_container", <<"src_container">>, TOption(TString), "none"),
       Field("dst_network", <<"dst_network">>, TString, "error"),
       Field("dst_container", <<"dst_container">>, TString, "error"),
       Field("expose_port", <<"expose_port">>,
             TWith("single_or_seq_string_or_struct", "ExposePort"), "error") >>

StructNames ==
    {"DFW", "Defaults", "Table", "Initialization", "ContainerToContainer",
     "ContainerToContainerRule", "ContainerToWiderWorld",
     "ContainerToWiderWorldRule", "ContainerToHost", "ContainerToHostRule",
     "WiderWorldToContainer", "WiderWorldToContainerRule", "ExposePort",
     "ContainerDNAT", "ContainerDNATRule"}

FieldsOf(struct) ==
    CASE struct = "DFW" -> DFWFields
      [] struct = "Defaults" -> DefaultsFields
      [] struct = "Table" -> TableFields
      [] struct = "Initialization" -> InitializationFields
      [] struct = "ContainerToContainer" -> ContainerToContainerFields
      [] struct = "ContainerToContainerRule" -> ContainerToContainerRuleFields
      [] struct = "ContainerToWiderWorld" -> ContainerToWiderWorldFields
      [] struct = "ContainerToWiderWorldRule" -> ContainerToWiderWorldRuleFields
      [] struct = "ContainerToHost" -> ContainerToHostFields
      [] struct = "ContainerToHostRule" -> ContainerToHostRuleFields
      [] struct = "WiderWorldToContainer" -> WiderWorldToContainerFields
      [] struct = "WiderWorldToContainerRule" -> WiderWorldToContainerRuleFields
      [] struct = "ExposePort" -> ExposePortFields
      [] struct = "ContainerDNAT" -> ContainerDNATFields
      [] struct = "ContainerDNATRule" -> ContainerDNATRuleFields

\* The keys a record of the struct accepts: field names and aliases.
DeclaredKeys(struct) ==
    LET fs == FieldsOf(struct)
    IN  UNION {{fs[i].keys[j] : j \in 1..Len(fs[i].keys)} : i \in 1..Len(fs)}

\* The derived field visitor: a match over the accepted keys whose arms stand
\* in field order, so the first field that lists the key takes it; 0 stands
\* for the fall-through arm (unknown field, under deny_unknown_fields).
FieldIndex(fs, key) ==
    LET hits == {i \in 1..Len(fs) : \E j \in 1..Len(fs[i].keys) : fs[i].keys[j] = key}
    IN  IF hits = {} THEN 0
        ELSE CHOOSE i \in hits : \A k \in hits : i <= k

(***************************** decoding ***********************************)
Accept == <<"a", "c", "c", "e", "p", "t">>
Drop == <<"d", "r", "o", "p">>
Reject == <<"r", "e", "j", "e", "c", "t">>

\* The variants of the verdict and chain-policy enumerations.
EnumVariants(name) == {Accept, Drop, Reject}

\* ChainPolicy::default(), used for default_docker_bridge_to_host_policy
ChainPolicyDefault == Accept

\* a serde default for family that differs from the builder's
default_expose_port_family_udp == Udp

default_expose_port_family == DEFAULT_PROTOCOL

\* What #[serde(default ...)] gives for a missing key of the field.
DefaultOf(f) ==
    IF f.name = "family" THEN default_expose_port_family ELSE ChainPolicyDefault

RECURSIVE DecodeValue(_, _)
RECURSIVE DecodeVec(_, _, _, _)
RECURSIVE Deserialize(_, _)
RECURSIVE visit_map(_, _, _, _)
RECURSIVE StringOrStruct(_)
RECURSIVE visit_seq(_, _, _)
RECURSIVE single_or_seq_string_or_struct(_)
RECURSIVE option_string_or_seq_string(_)
RECURSIVE option_struct_or_seq_struct(_, _)

\* Result::map(Some)
MapSome(r) == IF r.ok THEN Ok(Some(r.val)) ELSE Err(r.err)

\* Result::map(|e| vec![e])
MapVec(r) == IF r.ok THEN Ok(<<r.val>>) ELSE Err(r.err)

\* The value of field f at the end of a derived visit_map.
SlotValue(f, slot) ==
    IF slot # None THEN slot[1]
    ELSE IF f.missing = "none" THEN None
    ELSE DefaultOf(f)

\* The end of a derived visit_map: the first field (in declaration order)
\* that is required and unset fails; otherwise unset fields take None or
\* their default.
Finish(fs, slots) ==
    LET missing == {i \in 1..Len(fs) : slots[i] = None /\ fs[i].missing = "error"}
    IN  IF missing # {}
        THEN Err(ErrMissingField(fs[CHOOSE i \in missing : \A k \in missing : i <= k].name))
        ELSE Ok([n \in {fs[i].name : i \in 1..Len(fs)} |->
                    SlotValue(fs[CHOOSE i \in 1..Len(fs) : fs[i].name = n],
                              slots[CHOOSE i \in 1..Len(fs) : fs[i].name = n])])

\* One entry of a derived visit_map, v being the decoded value of the entry
\* for field f: an error ends the decode, a value fills the field's slot.
VisitValue(fs, entries, i, slots, f, v) ==
    IF ~v.ok THEN Err(v.err)
    ELSE visit_map(fs, entries, i + 1, [slots EXCEPT ![f] = Some(v.val)])

\* One entry without deny_unknown_fields: an unknown key is skipped
VisitKey_ignore_unknown(fs, entries, i, slots, f) ==
    IF f = 0 THEN visit_map(fs, entries, i + 1, slots)
    ELSE IF slots[f] # None THEN Err(ErrDuplicateField(fs[f].name))
    ELSE VisitValue(fs, entries, i, slots, f,
                    DecodeValue(fs[f].ty, entries[i][2]))

\* One entry of a derived visit_map under deny_unknown_fields, f being the
\* field the key selects: an unknown key and a key for a field that is
\* already set end the decode.
VisitKey(fs, entries, i, slots, f) ==
    IF f = 0 THEN Err(ErrUnknownField(entries[i][1]))
    ELSE IF slots[f] # None THEN Err(ErrDuplicateField(fs[f].name))
    ELSE VisitValue(fs, entries, i, slots, f,
                    DecodeValue(fs[f].ty, entries[i][2]))

\* visit_map without deny_unknown_fields
visit_map_ignore_unknown(fs, entries, i, slots) ==
    IF i > Len(entries) THEN Finish(fs, slots)
    ELSE VisitKey_ignore_unknown(fs, entries, i, slots,
                                 FieldIndex(fs, entries[i][1]))

\* The derived visit_map of a #[serde(deny_unknown_fields)] struct: the keys
\* are taken in document order.
visit_map(fs, entries, i, slots) ==
    IF i > Len(entries) THEN Finish(fs, slots)
    ELSE VisitKey(fs, entries, i, slots, FieldIndex(fs, entries[i][1]))

\* <T as Deserialize>::deserialize for a schema struct T.  A table goes to
\* the derived visit_map; a scalar is an invalid type.  (A sequence node
\* where a struct is expected is not among the documents modelled.)
Deserialize(struct, node) ==
    CASE Kind(node) = "map" ->
            visit_map(FieldsOf(struct), Val(node), 1,
                      [i \in 1..Len(FieldsOf(struct)) |-> None])
      [] Kind(node) \in {"int", "str", "bool", "float"} ->
            Err(ErrInvalidType(node, "struct"))

\* One turn of Vec<T>::deserialize that drops an element already in vec
PushElement_dedup(ty, elems, i, vec, e) ==
    IF ~e.ok THEN Err(e.err)
    ELSE IF \E k \in 1..Len(vec) : vec[k] = e.val
    THEN DecodeVec(ty, elems, i + 1, vec)
    ELSE DecodeVec(ty, elems, i + 1, Append(vec, e.val))

\* One turn of Vec<T>::deserialize, e being the decoded element
PushElement(ty, elems, i, vec, e) ==
    IF ~e.ok THEN Err(e.err)
    ELSE DecodeVec(ty, elems, i + 1, Append(vec, e.val))

\* Vec<T>::deserialize over the elements of a sequence
DecodeVec(ty, elems, i, vec) ==
    IF i > Len(elems) THEN Ok(vec)
    ELSE PushElement(ty, elems, i, vec, DecodeValue(ty, elems[i]))

\* Decoding a field's value by the field's declared type.
DecodeValue(ty, node) ==
    CASE ty[1] = "string" ->
            IF Kind(node) = "str" THEN Ok(Val(node))
            ELSE Err(ErrInvalidType(node, "a string"))
      [] ty[1] = "u16" ->
            IF Kind(node) # "int" THEN Err(ErrInvalidType(node, "u16"))
            ELSE IF Val(node) < 0 \/ Val(node) > U16Max
            THEN Err(ErrInvalidValue(node, "u16"))
            ELSE Ok(Val(node))
      [] ty[1] = "option" -> MapSome(DecodeValue(ty[2], node))
      [] ty[1] = "vec" ->
            IF Kind(node) = "seq" THEN DecodeVec(ty[2], Val(node), 1, <<>>)
            ELSE Err(ErrInvalidType(node, "a sequence"))
      [] ty[1] = "struct" -> Deserialize(ty[2], node)
      [] ty[1] = "enum" ->
            IF Kind(node) # "str" THEN Err(ErrInvalidType(node, "enum"))
            ELSE IF Val(node) \notin EnumVariants(ty[2])
            THEN Err(ErrUnknownVariant(node))
            ELSE Ok(Val(node))
      [] ty[1] = "with" ->
            CASE ty[2] = "single_or_seq_string_or_struct" ->
                    single_or_seq_string_or_struct(node)
              [] ty[2] = "option_string_or_seq_string" ->
                    option_string_or_seq_string(node)
              [] ty[2] = "option_struct_or_seq_struct" ->
                    option_struct_or_seq_struct(ty[3], node)

(***************************** StringOrStruct *****************************)
\* de::Error::custom(msg): the message is kept as it is
custom(msg) == msg

\* Result::map_err(de::Error::custom)
MapErrCustom(r) == IF r.ok THEN r ELSE Err(custom(r.err))

\* StringOrStruct::visit_i64
StringOrStruct_visit_i64(value) == MapErrCustom(from_str(to_string(value)))

\* StringOrStruct::visit_str
StringOrStruct_visit_str(value) == MapErrCustom(from_str(value))

\* StringOrStruct::visit_map
StringOrStruct_visit_map(node) == Deserialize("ExposePort", node)

\* StringOrStruct with a visit_seq that unwraps a one-element sequence
StringOrStruct_nested(node) ==
    CASE Kind(node) = "int" -> StringOrStruct_visit_i64(Val(node))
      [] Kind(node) = "str" -> StringOrStruct_visit_str(Val(node))
      [] Kind(node) = "map" -> StringOrStruct_visit_map(node)
      [] Kind(node) = "seq" /\ Len(Val(node)) = 1 -> StringOrStruct(Val(node)[1])
      [] OTHER -> Err(ErrInvalidType(node, "integer, string or map"))

\* deserialize_any(StringOrStruct): integer, string and map have a visit
\* method, every other node takes the Visitor default (invalid type)
StringOrStruct(node) ==
    CASE Kind(node) = "int" -> StringOrStruct_visit_i64(Val(node))
      [] Kind(node) = "str" -> StringOrStruct_visit_str(Val(node))
      [] Kind(node) = "map" -> StringOrStruct_visit_map(node)
      [] OTHER -> Err(ErrInvalidType(node, "integer, string or map"))

(***************************** SingleOrSeqStringOrStruct ******************)
\* visit_i64 that reduces the integer modulo 2^16 before it is parsed
SingleOrSeq_visit_i64_wrapping(value) ==
    MapErrCustom(MapVec(from_str(to_string(value % (U16Max + 1)))))

\* SingleOrSeqStringOrStruct::visit_i64
SingleOrSeq_visit_i64(value) ==
    MapErrCustom(MapVec(from_str(to_string(value))))

\* SingleOrSeqStringOrStruct::visit_str
SingleOrSeq_visit_str(value) == MapErrCustom(MapVec(from_str(value)))

\* SingleOrSeqStringOrStruct::visit_map
SingleOrSeq_visit_map(node) == MapVec(Deserialize("ExposePort", node))

\* One turn of the loop with the element inserted at the front of vec
PushNext_front(elems, i, vec, element) ==
    IF ~element.ok THEN Err(element.err)
    ELSE visit_seq(elems, i + 1, <<element.val>> \o vec)

\* One turn of the loop that skips a failing element
PushNext_skip_errors(elems, i, vec, element) ==
    IF ~element.ok THEN visit_seq(elems, i + 1, vec)
    ELSE visit_seq(elems, i + 1, Append(vec, element.val))

\* One turn of the while-let loop of visit_seq, element being the result
\* of next_element_seed(StringOrStruct): `?` returns the error and drops
\* vec, a value is pushed.
PushNext(elems, i, vec, element) ==
    IF ~element.ok THEN Err(element.err)
    ELSE visit_seq(elems, i + 1, Append(vec, element.val))

\* visit_seq inserting each element at the front of vec
visit_seq_front(elems, i, vec) ==
    IF i > Len(elems) THEN Ok(vec)
    ELSE PushNext_front(elems, i, vec, StringOrStruct(elems[i]))

\* visit_seq that skips an element that fails instead of returning its error
visit_seq_skip_errors(elems, i, vec) ==
    IF i > Len(elems) THEN Ok(vec)
    ELSE PushNext_skip_errors(elems, i, vec, StringOrStruct(elems[i]))

\* SingleOrSeqStringOrStruct::visit_seq
visit_seq(elems, i, vec) ==
    IF i > Len(elems) THEN Ok(vec)
    ELSE PushNext(elems, i, vec, StringOrStruct(elems[i]))

SingleOrSeqStringOrStruct(node) ==
    CASE Kind(node) = "int" -> SingleOrSeq_visit_i64(Val(node))
      [] Kind(node) = "str" -> SingleOrSeq_visit_str(Val(node))
      [] Kind(node) = "map" -> SingleOrSeq_visit_map(node)
      [] Kind(node) = "seq" -> visit_seq(Val(node), 1, <<>>)
      [] OTHER ->
            Err(ErrInvalidType(node,
                "sequence of integers, strings or maps or a single integer, string or map"))

single_or_seq_string_or_struct(node) == SingleOrSeqStringOrStruct(node)

(***************************** string_or_seq_string ***********************)
\* StringOrSeqString::visit_str
StringOrSeqString_visit_str(value) == Ok(<<value>>)

\* StringOrSeqString::visit_seq: Vec<String>::deserialize over the elements
StringOrSeqString_visit_seq(elems) == DecodeVec(TString, elems, 1, <<>>)

string_or_seq_string(node) ==
    CASE Kind(node) = "str" -> StringOrSeqString_visit_str(Val(node))
      [] Kind(node) = "seq" -> StringOrSeqString_visit_seq(Val(node))
      [] OTHER -> Err(ErrInvalidType(node, "string or sequence of strings"))

option_string_or_seq_string(node) == MapSome(string_or_seq_string(node))

(***************************** struct_or_seq_struct ***********************)
\* Result::map(|e| vec![e.clone(), e])
MapVecTwice(r) == IF r.ok THEN Ok(<<r.val, r.val>>) ELSE Err(r.err)

\* visit_map that wraps the record in a two-element list
StructOrSeqStruct_visit_map_twice(T, node) == MapVecTwice(Deserialize(T, node))

\* StructOrSeqStruct::visit_map
StructOrSeqStruct_visit_map(T, node) == MapVec(Deserialize(T, node))

\* StructOrSeqStruct::visit_seq: Vec<T>::deserialize over the elements
StructOrSeqStruct_visit_seq(T, elems) == DecodeVec(TStruct(T), elems, 1, <<>>)

struct_or_seq_struct(T, node) ==
    CASE Kind(node) = "map" -> StructOrSeqStruct_visit_map(T, node)
      [] Kind(node) = "seq" -> StructOrSeqStruct_visit_seq(T, Val(node))
      [] OTHER -> Err(ErrInvalidType(node, "map or sequence of maps"))

option_struct_or_seq_struct(T, node) == MapSome(struct_or_seq_struct(T, node))

(***************************** inputs **************************************)
\* Port numbers the generated documents use (boundary and typical values).
PortVals == {1, 80, 8080, 65535}

\* Integers beside the valid ports: zero, out of range, negative; 65616 and
\* -65456 are 80 modulo 2^16.
OtherInts == {0, 65536, 0 - 1, 65616, 0 - 65456}

\* Tokens of a port-spec body: decimal numbers, and malformed tokens.
Tokens == {to_string(n) : n \in PortVals \cup {0, 65536}} \cup {<<>>, <<"x">>}

\* Family strings: usual ones, one holding a ':', and the empty one.
Families == {DEFAULT_PROTOCOL, Udp, <<"a", ":", "b">>, <<>>}

RECURSIVE Bodies(_)
Bodies(n) ==
    IF n = 1 THEN Tokens
    ELSE {b \o <<":">> \o t : b \in Bodies(n - 1), t \in Tokens}

AllBodies == UNION {Bodies(n) : n \in 1..MaxTokens}

\* Every string handed to ExposePort::from_str: a body alone, a body and a
\* family, and strings with a second '/'.
PortStrings ==
    AllBodies
        \cup {b \o <<"/">> \o f : b \in AllBodies, f \in Families}
        \cup {b \o <<"/">> \o f \o <<"/">> \o g :
                b \in AllBodies, f \in {DEFAULT_PROTOCOL, <<>>}, g \in {Udp, <<>>}}

\* The compact string "h[:c][/f]"; c and f are options.
GrammarString(h, c, f) ==
    to_string(h)
        \o (IF c = None THEN <<>> ELSE <<":">> \o to_string(c[1]))
        \o (IF f = None THEN <<>> ELSE <<"/">> \o f[1])

\* The table { host_port = h [, container_port = c] [, family = f] }.
RecordOf(h, c, f) ==
    MapNode(<< <<"host_port", IntNode(h)>> >>
        \o (IF c = None THEN <<>> ELSE << <<"container_port", IntNode(c[1])>> >>)
        \o (IF f = None THEN <<>> ELSE << <<"family", StrNode(f[1])>> >>))

OptPorts == {None} \cup {Some(c) : c \in PortVals}
\* Families of the grammar: non-empty, without '/'.
GrammarFamilies == Families \ {<<>>}
OptFamilies == {None} \cup {Some(f) : f \in GrammarFamilies}

Bogus == <<"bogus", StrNode(<<"x">>)>>

\* Port records that are not of the form RecordOf(h, c, f) over valid ports.
OddRecords ==
    { MapNode(<< <<"host_port", IntNode(80)>>, Bogus >>),
      MapNode(<< Bogus, <<"host_port", IntNode(80)>> >>),
      MapNode(<< <<"container_port", IntNode(80)>> >>),
      MapNode(<< <<"family", StrNode(Udp)>>, <<"host_port", IntNode(80)>> >>),
      MapNode(<< <<"host_port", StrNode(<<"8", "0">>)>> >>),
      MapNode(<< <<"host_port", IntNode(65536)>> >>),
      MapNode(<< <<"host_port", IntNode(0)>> >>),
      MapNode(<< <<"host_port", IntNode(80)>>, <<"container_port", IntNode(0)>> >>),
      MapNode(<< <<"host_port", IntNode(80)>>, <<"family", StrNode(<<>>)>> >>),
      MapNode(<<>>) }

\* Port strings beside the grammar's: malformed, zero, out of range.
OddStrings ==
    { <<>>, <<"x">>, <<"0">>, <<"8", "0", "/">>, <<"8", "0", ":", "1", "/">>,
      <<"8", "0", ":", "1", ":", "1">>, <<"8", "0", ":", "1", ":", "1", "/", "u", "d", "p">>,
      <<"8", "0", "/", "t", "c", "p", "/", "x">>, <<"6", "5", "5", "3", "6">>,
      <<"8", "0", ":", "0">>, <<"+", "8", "0">>, <<"0", "8", "0">>, <<"-", "1">>,
      <<"8", "0", ":", "x">>, <<":", "8", "0">> }

\* A single (non-sequence) node given for a port field.
SinglePortNodes ==
    {IntNode(n) : n \in PortVals \cup OtherInts}
        \cup {StrNode(GrammarString(h, c, f)) :
                h \in PortVals, c \in OptPorts, f \in OptFamilies}
        \cup {StrNode(s) : s \in OddStrings}
        \cup {RecordOf(h, c, f) : h \in PortVals, c \in OptPorts, f \in OptFamilies}
        \cup OddRecords
        \cup {BoolNode(TRUE), FloatNode("1.5")}

\* The elements the generated sequences are made of: each shape, valid and
\* failing, and a nested sequence.
SeqElems ==
    { IntNode(80), IntNode(0), IntNode(65536), IntNode(0 - 1),
      StrNode(GrammarString(1, None, Some(Udp))),
      StrNode(GrammarString(80, Some(65535), None)),
      StrNode(<<"8", "0", ":", "1", ":", "1">>),
      RecordOf(65535, Some(1), None),
      RecordOf(80, None, None),
      MapNode(<< <<"host_port", IntNode(80)>>, Bogus >>),
      BoolNode(TRUE), FloatNode("1.5"),
      SeqNode(<<IntNode(80)>>) }

RECURSIVE SeqsOver(_, _)
SeqsOver(S, n) ==
    IF n = 0 THEN {<<>>}
    ELSE {Append(q, e) : q \in SeqsOver(S, n - 1), e \in S}

\* Every node handed to single_or_seq_string_or_struct.
PortNodes ==
    SinglePortNodes
        \cup {SeqNode(q) : q \in UNION {SeqsOver(SeqElems, n) : n \in 0..MaxSeqLen}}

Eth0 == <<"e", "t", "h", "0">>
Eth1 == <<"e", "t", "h", "1">>

StringElems ==
    { StrNode(Eth0), StrNode(Eth1), StrNode(<<>>), IntNode(80), BoolNode(TRUE),
      SeqNode(<<StrNode(Eth0)>>), MapNode(<<>>) }

\* Every node handed to string_or_seq_string.
StringListNodes ==
    StringElems
        \cup {SeqNode(q) : q \in UNION {SeqsOver(StringElems, n) : n \in 0..MaxSeqLen}}

Filter == <<"f", "i", "l", "t", "e", "r">>
Input == <<"i", "n", "p", "u", "t">>

TableRecords ==
    { MapNode(<< <<"name", StrNode(Filter)>>,
                 <<"chains", SeqNode(<<StrNode(Input)>>)>> >>),
      MapNode(<< <<"chains", SeqNode(<<>>)>>, <<"name", StrNode(Input)>> >>),
      MapNode(<< <<"name", StrNode(Filter)>> >>),
      MapNode(<< <<"name", StrNode(Filter)>>,
                 <<"chains", SeqNode(<<StrNode(Input)>>)>>, Bogus >>),
      MapNode(<< <<"name", StrNode(Filter)>>, <<"chains", StrNode(Input)>> >>) }

TableElems ==
    TableRecords \cup {StrNode(Filter), IntNode(80), BoolNode(TRUE)}

\* Every node handed to struct_or_seq_struct::<Table>.
TableListNodes ==
    TableElems
        \cup {SeqNode(q) : q \in UNION {SeqsOver(TableElems, n) : n \in 0..MaxSeqLen}}

\* Values handed to the setters of an ExposePortBuilder.
BuilderPorts == {0, 80, 65535}
BuilderContainerPorts == {None, Some(80), Some(8080)}
BuilderFamilies == {DEFAULT_PROTOCOL, Udp, <<>>}

(***************************** generated records **************************)
RECURSIVE GoodValue(_)
RECURSIVE BadValue(_)

\* A table of the struct with every field given under its own name and a
\* value that decodes.
GoodNode(struct) ==
    LET fs == FieldsOf(struct)
    IN  MapNode([i \in 1..Len(fs) |-> <<fs[i].name, GoodValue(fs[i].ty)>>])

\* The same table with a value in its last field that fails to decode.
BadNode(struct) ==
    LET fs == FieldsOf(struct)
    IN  MapNode([i \in 1..Len(fs) |->
                    <<fs[i].name,
                      IF i = Len(fs) THEN BadValue(fs[i].ty) ELSE GoodValue(fs[i].ty)>>])

GoodValue(ty) ==
    CASE ty[1] = "string" -> StrNode(Eth0)
      [] ty[1] = "u16" -> IntNode(80)
      [] ty[1] = "option" -> GoodValue(ty[2])
      [] ty[1] = "vec" -> SeqNode(<<GoodValue(ty[2]), GoodValue(ty[2])>>)
      [] ty[1] = "struct" -> GoodNode(ty[2])
      [] ty[1] = "enum" -> StrNode(Drop)
      [] ty[1] = "with" ->
            CASE ty[2] = "single_or_seq_string_or_struct" ->
                    SeqNode(<<IntNode(80), StrNode(GrammarString(1, None, Some(Udp))),
                              RecordOf(65535, Some(1), None)>>)
              [] ty[2] = "option_string_or_seq_string" ->
                    SeqNode(<<StrNode(Eth0), StrNode(Eth1)>>)
              [] ty[2] = "option_struct_or_seq_struct" -> GoodNode(ty[3])

\* A value of the expected outer shape that fails inside, after a part that
\* decodes.
BadValue(ty) ==
    CASE ty[1] = "string" -> IntNode(80)
      [] ty[1] = "u16" -> IntNode(65536)
      [] ty[1] = "option" -> BadValue(ty[2])
      [] ty[1] = "vec" -> SeqNode(<<GoodValue(ty[2]), BadValue(ty[2])>>)
      [] ty[1] = "struct" -> BadNode(ty[2])
      [] ty[1] = "enum" -> StrNode(<<"x">>)
      [] ty[1] = "with" ->
            CASE ty[2] = "single_or_seq_string_or_struct" ->
                    SeqNode(<<IntNode(80), StrNode(<<"8", "0", ":", "1", ":", "1">>),
                              RecordOf(65535, Some(1), None)>>)
              [] ty[2] = "option_string_or_seq_string" ->
                    SeqNode(<<StrNode(Eth0), IntNode(80)>>)
              [] ty[2] = "option_struct_or_seq_struct" ->
                    SeqNode(<<GoodNode(ty[3]), BadNode(ty[3])>>)

\* The entries a document may give for one field: none, or one entry under
\* the field's name or one of its aliases, with a good or a bad value.
FieldOptions(f) ==
    {<<>>} \cup {<< <<f.keys[j], v>> >> :
                    j \in 1..Len(f.keys), v \in {GoodValue(f.ty), BadValue(f.ty)}}

RECURSIVE EntrySeqs(_, _)
EntrySeqs(fs, i) ==
    IF i > Len(fs) THEN {<<>>}
    ELSE {o \o rest : o \in FieldOptions(fs[i]), rest \in EntrySeqs(fs, i + 1)}

\* A table never holds the same key twice.
DistinctKeys(entries) ==
    \A i, j \in 1..Len(entries) : entries[i][1] = entries[j][1] => i = j

\* The generated tables for a struct: the entry choices above, as they are or
\* with one undeclared key in front or at the end.
StructDocs(struct) ==
    LET base == {e \in EntrySeqs(FieldsOf(struct), 1) : DistinctKeys(e)}
    IN  {MapNode(e) : e \in base}
            \cup {MapNode(<<Bogus>> \o e) : e \in base}
            \cup {MapNode(Append(e, Bogus)) : e \in base}

(***************************** actions *************************************)
NoResult == Err(<<"no result yet">>)

Init ==
    /\ \/ op = "from_str" /\ target = "ExposePort" /\ input \in PortStrings
       \/ /\ op = "single_or_seq_string_or_struct"
          /\ target = "ExposePort"
          /\ input \in PortNodes
       \/ op = "string_or_seq_string" /\ target = "String" /\ input \in StringListNodes
       \/ op = "struct_or_seq_struct" /\ target = "Table" /\ input \in TableListNodes
       \/ op = "deserialize" /\ target \in StructNames /\ input \in StructDocs(target)
       \/ op = "build" /\ target = "ExposePortBuilder" /\ input = <<>>
    /\ pc = "ready"
    /\ result = NoResult
    /\ builder = BuilderDefault

\* s.parse::<ExposePort>()
FromStr ==
    /\ pc = "ready"
    /\ op = "from_str"
    /\ result' = from_str(input)
    /\ pc' = "done"
    /\ UNCHANGED <<op, target, input, builder>>

\* an expose_port field: deserialize_with = "single_or_seq_string_or_struct"
NormalizePorts ==
    /\ pc = "ready"
    /\ op = "single_or_seq_string_or_struct"
    /\ result' = single_or_seq_string_or_struct(input)
    /\ pc' = "done"
    /\ UNCHANGED <<op, target, input, builder>>

\* a string-list field: string_or_seq_string
NormalizeStrings ==
    /\ pc = "ready"
    /\ op = "string_or_seq_string"
    /\ result' = string_or_seq_string(input)
    /\ pc' = "done"
    /\ UNCHANGED <<op, target, input, builder>>

\* a record-list field: struct_or_seq_struct::<Table>
NormalizeStructs ==
    /\ pc = "ready"
    /\ op = "struct_or_seq_struct"
    /\ result' = struct_or_seq_struct(target, input)
    /\ pc' = "done"
    /\ UNCHANGED <<op, target, input, builder>>

\* decoding a table as one of the schema's structs
DeserializeStruct ==
    /\ pc = "ready"
    /\ op = "deserialize"
    /\ result' = Deserialize(target, input)
    /\ pc' = "done"
    /\ UNCHANGED <<op, target, input, builder>>

\* builder.host_port(v); input records the setter calls made so far
SetHostPort ==
    /\ pc = "ready"
    /\ op = "build"
    /\ Len(input) < MaxCalls
    /\ \E v \in BuilderPorts :
            /\ builder' = host_port(builder, v)
            /\ input' = Append(input, <<"host_port", v>>)
    /\ UNCHANGED <<op, target, pc, result>>

\* builder.container_port(v)
SetContainerPort ==
    /\ pc = "ready"
    /\ op = "build"
    /\ Len(input) < MaxCalls
    /\ \E v \in BuilderContainerPorts :
            /\ builder' = container_port(builder, v)
            /\ input' = Append(input, <<"container_port", v>>)
    /\ UNCHANGED <<op, target, pc, result>>

\* builder.family(v)
SetFamily ==
    /\ pc = "ready"
    /\ op = "build"
    /\ Len(input) < MaxCalls
    /\ \E v \in BuilderFamilies :
            /\ builder' = family(builder, v)
            /\ input' = Append(input, <<"family", v>>)
    /\ UNCHANGED <<op, target, pc, result>>

\* builder.build()
Build ==
    /\ pc = "ready"
    /\ op = "build"
    /\ result' = build(builder)
    /\ pc' = "done"
    /\ UNCHANGED <<op, target, input, builder>>

Next ==
    \/ FromStr
    \/ NormalizePorts
    \/ NormalizeStrings
    \/ NormalizeStructs
    \/ DeserializeStruct
    \/ SetHostPort
    \/ SetContainerPort
    \/ SetFamily
    \/ Build

Spec == Init /\ [][Next]_vars

(***************************** properties **********************************)
Done(o) == op = o /\ pc = "done"

\* Two results agree: both succeed with the same value, or both fail with
\* the same error.
SameResult(a, b) ==
    /\ a.ok = b.ok
    /\ a.ok => a.val = b.val
    /\ ~a.ok => a.err = b.err

\* The message holds the string as a contiguous run of characters.
Embeds(msg, s) ==
    \E k \in 0..(Len(msg) - Len(s)) : SubSeq(msg, k + 1, k + Len(s)) = s

PortSpec(h, c, f) == [host_port |-> h, container_port |-> c, family |-> f]

FamilyOr(f) == IF f = None THEN DEFAULT_PROTOCOL ELSE f[1]

\* C1: for ports h, c and a non-empty family f without '/', from_str maps
\* "h", "h/f", "h:c" and "h:c/f" to {h, absent or c, "tcp" or f}; an omitted
\* container port stays absent.
C1_ParseGrammar ==
    Done("from_str") =>
        \A h \in PortVals, c \in OptPorts, f \in OptFamilies :
            input = GrammarString(h, c, f) =>
                result.ok /\ result.val = PortSpec(h, c, FamilyOr(f))

C1_Witness ==
    /\ Done("from_str")
    /\ input = GrammarString(8080, None, Some(Udp))
    /\ result.ok
    /\ result.val.host_port = 8080
    /\ result.val.container_port = None
    /\ result.val.family = Udp

\* C2: the string "h[:c][/f]" and the record {host_port=h [, container_port=c]
\* [, family=f]} normalize to the same port list, for every combination of
\* present and absent optional fields.
C2_StringRecordEquivalent ==
    Done("single_or_seq_string_or_struct") =>
        \A h \in PortVals, c \in OptPorts, f \in OptFamilies :
            /\ input = StrNode(GrammarString(h, c, f)) =>
                    /\ result.ok
                    /\ SameResult(result,
                                  single_or_seq_string_or_struct(RecordOf(h, c, f)))
            /\ input = RecordOf(h, c, f) =>
                    /\ result.ok
                    /\ SameResult(result,
                                  single_or_seq_string_or_struct(
                                      StrNode(GrammarString(h, c, f))))

C2_Witness ==
    /\ Done("single_or_seq_string_or_struct")
    /\ input = RecordOf(8080, None, None)
    /\ result.ok
    /\ result.val = <<PortSpec(8080, None, DEFAULT_PROTOCOL)>>
    /\ SameResult(result,
                  single_or_seq_string_or_struct(StrNode(<<"8", "0", "8", "0">>)))

\* C3: a sequence of n integers, strings and records normalizes to n port
\* specifications, the i-th being the normalization of the i-th element taken
\* alone, in input order; it succeeds when every element does.
C3_SequenceElementwise ==
    (Done("single_or_seq_string_or_struct") /\ Kind(input) = "seq"
        /\ \A i \in 1..Len(Val(input)) : Kind(Val(input)[i]) \in {"int", "str", "map"})
    =>  LET elems == Val(input)
            alone(i) == single_or_seq_string_or_struct(elems[i])
        IN  /\ (\A i \in 1..Len(elems) : alone(i).ok) => result.ok
            /\ result.ok =>
                /\ Len(result.val) = Len(elems)
                /\ \A i \in 1..Len(elems) :
                        alone(i).ok /\ alone(i).val = <<result.val[i]>>

C3_Witness ==
    /\ Done("single_or_seq_string_or_struct")
    /\ input = SeqNode(<<IntNode(80), StrNode(GrammarString(1, None, Some(Udp))),
                         RecordOf(65535, Some(1), None)>>)
    /\ result.ok
    /\ result.val = <<PortSpec(80, None, DEFAULT_PROTOCOL), PortSpec(1, None, Udp),
                      PortSpec(65535, Some(1), DEFAULT_PROTOCOL)>>

\* C4: the records {host_port=h}, {host_port=h, container_port=h},
\* {host_port=h, family="tcp"} and {host_port=h, container_port=h,
\* family="tcp"} decode to equal port specifications.
C4_FourEncodingsEqual ==
    Done("single_or_seq_string_or_struct") =>
        \A h \in PortVals :
            input = RecordOf(h, None, None) =>
                \A c \in {None, Some(h)}, f \in {None, Some(DEFAULT_PROTOCOL)} :
                    SameResult(result,
                               single_or_seq_string_or_struct(RecordOf(h, c, f)))

\* C5: every failure of from_str on s reports an error that embeds s.
C5_ErrorEmbedsInput ==
    (Done("from_str") /\ ~result.ok) => Embeds(result.err, input)

\* C6: a string with a '/' and nothing after it fails; no port specification
\* has an empty family.
C6_EmptyFamilyRejected ==
    (Done("from_str") /\ result.ok) => result.val.family # <<>>

\* The port specifications of a result: those of a normalized port field, or
\* the expose_port lists of a decoded rule.
PortsOf ==
    IF ~result.ok THEN {}
    ELSE IF op = "from_str" THEN {result.val}
    ELSE IF op = "single_or_seq_string_or_struct"
    THEN {result.val[i] : i \in 1..Len(result.val)}
    ELSE IF op = "deserialize"
            /\ target \in {"ExposePort"}
    THEN {result.val}
    ELSE IF op = "deserialize"
            /\ target \in {"WiderWorldToContainerRule", "ContainerDNATRule"}
    THEN {result.val.expose_port[i] : i \in 1..Len(result.val.expose_port)}
    ELSE {}

PortsWithin(lo) ==
    \A p \in PortsOf :
        /\ p.host_port \in lo..U16Max
        /\ p.container_port # None => p.container_port[1] \in lo..U16Max

\* C7 as stated: every port of a normalized tree is in 1..65535.
C7_PortsFromOne == pc = "done" => PortsWithin(1)

\* C7 as amended: every port of a normalized tree, from an integer, a string
\* or a record, is in 0..65535; 0 is accepted.
C7_PortsInU16 == pc = "done" => PortsWithin(0)

C7_Witness ==
    /\ Done("single_or_seq_string_or_struct")
    /\ input = SeqNode(<<IntNode(0), StrNode(GrammarString(80, Some(65535), None)),
                         RecordOf(65535, Some(1), None)>>)
    /\ result.ok
    /\ result.val[1].host_port = 0
    /\ result.val[2].container_port = Some(U16Max)

HasUndeclaredKey ==
    \E i \in 1..Len(Val(input)) : Val(input)[i][1] \notin DeclaredKeys(target)

\* C8: decoding a record of any struct of the schema that holds a key the
\* struct does not declare fails, whatever the other keys are.
C8_UnknownKeyFails ==
    (Done("deserialize") /\ HasUndeclaredKey) => ~result.ok

C8_Witness ==
    /\ Done("deserialize")
    /\ target = "DFW"
    /\ input = MapNode(Append(Val(GoodNode("DFW")), Bogus))
    /\ Deserialize("DFW", GoodNode("DFW")).ok
    /\ ~result.ok
    /\ result.err = ErrUnknownField("bogus")

\* The table with the key at entry i replaced.
Rekey(node, i, key) == MapNode([Val(node) EXCEPT ![i] = <<key, Val(node)[i][2]>>])

\* C9: a record written with a declared alias in place of the field's own
\* key decodes to the same tree as the record written with the field's key.
C9_AliasSubstitutes ==
    Done("deserialize") =>
        LET fs == FieldsOf(target)
        IN  \A f \in 1..Len(fs), i \in 1..Len(Val(input)) :
              \A j \in 1..Len(fs[f].keys) :
                (/\ Val(input)[i][1] = fs[f].name
                 /\ DistinctKeys(Val(Rekey(input, i, fs[f].keys[j]))))
                =>  SameResult(result,
                               Deserialize(target, Rekey(input, i, fs[f].keys[j])))

\* The element decoders of the three list normalizers.
ElementAlone(e) ==
    CASE op = "single_or_seq_string_or_struct" -> StringOrStruct(e)
      [] op = "string_or_seq_string" -> DecodeValue(TString, e)
      [] op = "struct_or_seq_struct" -> DecodeValue(TStruct(target), e)

\* C10: when an element of a port-list, string-list or record-list sequence
\* fails, at any position, the field fails with the first failing element's
\* error and no partial list; when a value of a record fails to decode, the
\* record, up to the whole configuration, fails.
C10_ErrorsAbort ==
    /\ (/\ pc = "done"
        /\ op \in {"single_or_seq_string_or_struct", "string_or_seq_string",
                   "struct_or_seq_struct"}
        /\ Kind(input) = "seq")
       => LET elems == Val(input)
              failing == {i \in 1..Len(elems) : ~ElementAlone(elems[i]).ok}
          IN  failing # {} =>
                /\ ~result.ok
                /\ result.val = <<>>
                /\ \E i \in failing :
                        /\ \A k \in failing : i <= k
                        /\ result.err = ElementAlone(elems[i]).err
    /\ Done("deserialize")
       => LET fs == FieldsOf(target)
              entries == Val(input)
          IN  (\E i \in 1..Len(entries) :
                    /\ FieldIndex(fs, entries[i][1]) # 0
                    /\ ~DecodeValue(fs[FieldIndex(fs, entries[i][1])].ty,
                                    entries[i][2]).ok)
              => ~result.ok /\ result.val = <<>>

C10_Witness ==
    /\ Done("deserialize")
    /\ target = "DFW"
    /\ input = BadNode("DFW")
    /\ ~result.ok
    /\ result.err = ErrInvalidFormat(<<"8", "0", ":", "1", ":", "1">>)

\* An error of the kind serde raises for a node of the wrong shape
\* (de::Error::invalid_type).
IsShapeError(err) == Len(err) = 4 /\ err[1] = "invalid type: "

\* C11: string_or_seq_string maps a single string s to the list [s] and a
\* sequence of strings to the same list, order and duplicates kept; every
\* other node (number, boolean, record, or a sequence holding a non-string
\* such as a nested sequence) fails with a shape error.
C11_ScalarList ==
    Done("string_or_seq_string") =>
        IF Kind(input) = "str"
        THEN result.ok /\ result.val = <<Val(input)>>
        ELSE IF /\ Kind(input) = "seq"
                /\ \A i \in 1..Len(Val(input)) : Kind(Val(input)[i]) = "str"
        THEN /\ result.ok
             /\ Len(result.val) = Len(Val(input))
             /\ \A i \in 1..Len(Val(input)) : result.val[i] = Val(Val(input)[i])
        ELSE ~result.ok /\ IsShapeError(result.err)

C11_Witness ==
    /\ Done("string_or_seq_string")
    /\ input = SeqNode(<<StrNode(Eth1), StrNode(Eth0), StrNode(Eth1)>>)
    /\ result.ok
    /\ result.val = <<Eth1, Eth0, Eth1>>

\* C12: struct_or_seq_struct gives the same one-element list for a single
\* table-reference record and for the one-element sequence holding that
\* record, and rejects scalars and bare strings with a shape error.
C12_RecordList ==
    Done("struct_or_seq_struct") =>
        /\ Kind(input) = "map" =>
                /\ result.ok = struct_or_seq_struct(target, SeqNode(<<input>>)).ok
                /\ result.ok =>
                        /\ Len(result.val) = 1
                        /\ result.val[1] = Deserialize(target, input).val
                        /\ result.val =
                                struct_or_seq_struct(target, SeqNode(<<input>>)).val
        /\ Kind(input) \in {"int", "str", "bool", "float"} =>
                ~result.ok /\ IsShapeError(result.err)

C12_Witness ==
    /\ Done("struct_or_seq_struct")
    /\ target = "Table"
    /\ input = MapNode(<< <<"name", StrNode(Filter)>>,
                          <<"chains", SeqNode(<<StrNode(Input)>>)>> >>)
    /\ result.ok
    /\ result.val = <<[name |-> Filter, chains |-> <<Input>>]>>

\* The position of the last call of the setter in the calls made, 0 if the
\* setter was never called.
LastSet(setter) ==
    IF \A i \in 1..Len(input) : input[i][1] # setter THEN 0
    ELSE CHOOSE i \in 1..Len(input) :
            /\ input[i][1] = setter
            /\ \A k \in (i + 1)..Len(input) : input[k][1] # setter

\* C13: after any sequence of calls of the setters host_port, container_port
\* and family, build() succeeds exactly when host_port was set; then every
\* field holds the value of its last set, family is "tcp" if never set and
\* container_port is absent if never set.
C13_BuilderDefaults ==
    Done("build") =>
        /\ result.ok <=> LastSet("host_port") # 0
        /\ result.ok =>
                /\ result.val.host_port = input[LastSet("host_port")][2]
                /\ result.val.container_port =
                        IF LastSet("container_port") = 0 THEN None
                        ELSE input[LastSet("container_port")][2]
                /\ result.val.family =
                        IF LastSet("family") = 0 THEN DEFAULT_PROTOCOL
                        ELSE input[LastSet("family")][2]

C13_Witness ==
    /\ Done("build")
    /\ input = << <<"host_port", 80>>, <<"family", Udp>>, <<"host_port", 65535>> >>
    /\ result = Ok(PortSpec(65535, None, Udp))

\* The node with an integer replaced by the string of its base-10 digits.
AsGrammarString(node) ==
    IF Kind(node) = "int" THEN StrNode(to_string(Val(node))) ELSE node

\* C14: an integer n given for a port field, alone or as an element of a
\* sequence, is normalized as the string of its base-10 digits: n in
\* 0..65535 gives {host_port = n, container_port absent, family "tcp"}, and
\* a negative n or an n above 65535 makes the field fail.
C14_BareInteger ==
    Done("single_or_seq_string_or_struct") =>
        /\ Kind(input) = "int" =>
                /\ SameResult(result,
                        single_or_seq_string_or_struct(AsGrammarString(input)))
                /\ Val(input) \in 0..U16Max =>
                        /\ result.ok
                        /\ result.val =
                                <<PortSpec(Val(input), None, DEFAULT_PROTOCOL)>>
                /\ Val(input) \notin 0..U16Max => ~result.ok
        /\ Kind(input) = "seq" =>
                /\ SameResult(result,
                        single_or_seq_string_or_struct(
                            SeqNode([i \in 1..Len(Val(input)) |->
                                        AsGrammarString(Val(input)[i])])))
                /\ \A i \in 1..Len(Val(input)) :
                        Kind(Val(input)[i]) = "int" =>
                            /\ Val(Val(input)[i]) \notin 0..U16Max => ~result.ok
                            /\ result.ok =>
                                    result.val[i] =
                                        PortSpec(Val(Val(input)[i]), None,
                                                 DEFAULT_PROTOCOL)

C14_Witness ==
    /\ Done("single_or_seq_string_or_struct")
    /\ input = IntNode(65616)
    /\ ~result.ok
    /\ result.err = ErrPosOverflow

\* C15: single_or_seq_string_or_struct fails with a shape error on a boolean
\* or a float at top level, and on a sequence holding a boolean, a float or
\* a sequence (also one whose own elements are valid ports): a nested
\* sequence is never flattened.  When the elements before it decode, the
\* error is the shape error of that element.
C15_ShapeErrors ==
    Done("single_or_seq_string_or_struct") =>
        /\ Kind(input) \in {"bool", "float"} =>
                /\ ~result.ok
                /\ IsShapeError(result.err)
                /\ result.err[2] = Kind(input)
        /\ Kind(input) = "seq" =>
                \A i \in 1..Len(Val(input)) :
                    Kind(Val(input)[i]) \in {"bool", "float", "seq"} =>
                        /\ ~result.ok
                        /\ (\A k \in 1..(i - 1) : StringOrStruct(Val(input)[k]).ok)
                            => /\ IsShapeError(result.err)
                               /\ result.err[2] = Kind(Val(input)[i])

C15_Witness ==
    /\ Done("single_or_seq_string_or_struct")
    /\ input = SeqNode(<<IntNode(80), SeqNode(<<IntNode(80)>>)>>)
    /\ ~result.ok
    /\ result.err = ErrInvalidType(SeqNode(<<IntNode(80)>>), "integer, string or map")

====
